---- MODULE Spec2Model ----
(***************************************************************************)
(* A model of disco.types.guild: the Guild aggregate (members and roles    *)
(* maps, the synced flag), its cache-or-fetch member lookup, its           *)
(* permission resolution and its one-shot member sync.                     *)
(*                                                                         *)
(* The remote collaborators (client.api, client.gw) are the environment:   *)
(* every call into them has a nondeterministic outcome.                    *)
(***************************************************************************)
EXTENDS Integers, Sequences, FiniteSets, TLC

\* ---------------------------------------------------------------- bounds

\* Longest role-id list carried by a member record.
MaxRoleListLen == 2

\* Snowflakes of the users the operations are called with (a user argument
\* stands for its id, as to_snowflake(user) and user.id give it).
UserIds == {3, 9}

\* Snowflakes a guild may have as owner_id.
OwnerIds == {9}

\* Snowflakes a guild may have as id.
GuildIds == {1}

\* Snowflakes roles may have; the role whose id is the guild id is "everyone".
RoleIds == {1, 5, 6}

\* Role ids a member record may list.
MemberRoleIds == {5, 6}

\* Raw permission bitsets a role may carry (overlapping bits, below the
\* administrator bit).
PermValues == {3, 6}

\* Width of a permission bitset in the model.
PermBits == 4

\* Outcomes of client.gw.send: it returns, or raises.
GwOutcomes == {"ok", "Exception"}

\* --------------------------------------------------------------- values

\* Permissions.ADMINISTRATOR (disco.types.permissions): bit 3.
ADMINISTRATOR == 8

\* All sequences over S of length at most n.
SeqsUpTo(S, n) == UNION {[1..k -> S] : k \in 0..n}

RoleLists == SeqsUpTo(MemberRoleIds, MaxRoleListLen)

\* A GuildMember: id is the alias of user.id, roles the list of role ids.
GuildMember(uid, rs) == [id |-> uid, roles |-> rs]

Members == [id : UserIds, roles : RoleLists]

\* Stands for "no member" wherever a member-typed slot holds nothing.
NoMember == [id |-> 0, roles |-> <<>>]

\* All maps from a subset of D to R (a dict).
Dicts(D, R) == UNION {[S -> R] : S \in SUBSET D}

\* d[k] = v (dict item assignment).
dict_set(d, k, v) == [x \in (DOMAIN d) \cup {k} |-> IF x = k THEN v ELSE d[x]]

\* What a call hands back to its caller.
\*   kind "member": a GuildMember;  kind "none": Python's None;
\*   kind "value": a PermissionValue;  kind "raise": an exception named by exc;
\*   kind "remote": whatever the client.api method returned;
\*   kind "state": a VoiceState of the voice_states map.
ReturnMember(m) == [kind |-> "member", member |-> m, value |-> 0, exc |-> ""]
ReturnNone == [kind |-> "none", member |-> NoMember, value |-> 0, exc |-> ""]
ReturnRemote == [kind |-> "remote", member |-> NoMember, value |-> 0, exc |-> ""]
ReturnState(st) ==
    [kind |-> "state", member |-> NoMember, value |-> 0, exc |-> "", state |-> st]
ReturnValue(v) == [kind |-> "value", member |-> NoMember, value |-> v, exc |-> ""]
Raise(e) == [kind |-> "raise", member |-> NoMember, value |-> 0, exc |-> e]
NoReturn == [kind |-> "", member |-> NoMember, value |-> 0, exc |-> ""]

\* dict.get(k): the entry, or None.
dict_get(d, k) == IF k \in DOMAIN d THEN ReturnMember(d[k]) ELSE ReturnNone

\* Bitwise or of two bitsets of width PermBits.
RECURSIVE BitOr(_, _, _)
BitOr(a, b, n) ==
    IF n = 0 THEN 0
    ELSE (IF a % 2 = 1 \/ b % 2 = 1 THEN 1 ELSE 0)
         + 2 * BitOr(a \div 2, b \div 2, n - 1)

\* PermissionValue.__iadd__: union of the two bitsets.
PermAdd(a, b) == BitOr(a, b, PermBits)

\* ---------------------------------------------------------------- state

VARIABLES
    id,         \* Guild.id
    owner_id,   \* Guild.owner_id
    members,    \* Guild.members: dict user id -> GuildMember
    roles,      \* Guild.roles: dict role id -> permissions of the role
    synced,     \* Guild.synced
    gw,         \* the packets handed to client.gw.send, in order
    last,       \* the most recent completed call and what it did
    pc,         \* concurrent callers: position of each inside its call
    voice_states,   \* Guild.voice_states, in the order the map iterates
    children,   \* guild_id of the entities of the five collections, by
                \* collection and key
    built,      \* whether Guild.__init__ has run
    requests,   \* the requests the most recent call handed to client.api,
                \* member fetches aside
    loc,        \* concurrent callers of get_member: the locals of each
    writer      \* concurrent callers of get_member: the last to store

vars == <<id, owner_id, members, roles, synced, gw, last, pc,
          voice_states, children, built, requests, loc, writer>>

\* The parts of the state that get_member, get_permissions and sync never
\* read or write.
rest == <<voice_states, built, loc, writer>>

\* Concurrent callers of sync().
Callers == {"a", "b"}

NoCall ==
    [op |-> "", user |-> 0, hit |-> FALSE, res |-> NoReturn, fetches |-> 0,
     fetched |-> NoMember, sends |-> 0, quiet |-> TRUE]

\* Callers that may be waiting inside guilds_members_get while other calls
\* run.
Waiters == {"a"}

\* No call is suspended inside the guild.
Quiet == \A c \in Callers : pc[c] = "idle"

\* The record of a completed call: the operation, its argument, whether the
\* argument was a key of the members map when the call started, what the call
\* returned, how many remote member fetches it issued, the member the remote
\* returned to it (if a fetch succeeded) and how many packets it handed to
\* the gateway; quiet tells that the call ran from its first statement to its
\* return with no other call suspended inside the guild.
Call(op, user, res, fetches, fetched, sends) ==
    [op |-> op, user |-> user, hit |-> user \in DOMAIN members, res |-> res,
     fetches |-> fetches, fetched |-> fetched, sends |-> sends,
     quiet |-> Quiet]

\* The arguments of a call besides the user: a role id, a nickname, a number
\* of days, a raw permission value.
NoArgs == [role |-> 0, nick |-> "", days |-> 0, permissions |-> 0]

\* The guild as a call found it; for a call that waited in its fetch, as the
\* answer found it.
Before == [members |-> members, synced |-> synced, gw |-> gw]

\* guild_id values an entity may carry when it is decoded or fetched: none
\* (0), this guild's, another guild's.
CarriedIds == {0} \cup GuildIds \cup {2}

\* An answer of client.api.guilds_members_get has outcome "ok", the member
\* fetched and the guild_id that member carries, or outcome "APIException".
\* This is the one that raises.
Refused == [outcome |-> "APIException", fetched |-> NoMember, guild_id |-> 0]

\* What the remote may answer to a call that, left without a member, would
\* have issued asked fetches of user: APIException, or a member record of that
\* user carrying any guild_id.  A call that asks nothing gets no answer to
\* choose from.
Answers(user, asked) ==
    IF asked = 0 THEN {Refused}
    ELSE {Refused}
         \cup {[outcome |-> "ok", fetched |-> GuildMember(user, rs), guild_id |-> g] :
                  rs \in RoleLists, g \in CarriedIds}

\* The member a call got from the remote: a is the answer the remote had for
\* it, fetches the number of fetches the call issued.
Fetched(a, fetches) ==
    IF fetches > 0 /\ a.outcome = "ok" THEN a.fetched ELSE NoMember

\* Keys of Guild.channels and of Guild.emojis.
ChannelIds == {10}
EmojiIds == {20}

\* Session ids, the keys of Guild.voice_states.
SessionIds == {"s1", "s2", "s3"}

\* A VoiceState: the session it belongs to and the user connected.
VoiceState(sid, uid) == [session_id |-> sid, user_id |-> uid]

\* The session ids of a list of voice states.
Sessions(vs) == {vs[i].session_id : i \in DOMAIN vs}

\* Model.attach(entities, {'guild_id': gid}): sets guild_id on every entity.
\* entities maps each key to the guild_id its entity carries.
attach(entities, gid) == [k \in DOMAIN entities |-> gid]

\* Guild.__init__ without the last attach: voice states are left as decoded.
init_skipsVoiceStates(raw) ==
    [channels     |-> attach(raw.channels, id),
     members      |-> attach(raw.members, id),
     roles        |-> attach(raw.roles, id),
     emojis       |-> attach(raw.emojis, id),
     voice_states |-> raw.voice_states]

\* Guild.__init__ (lines 256-260) on the five collections of a decoded
\* snapshot, each given by the guild_id its entities carry.
Guild_init(raw) ==
    [channels     |-> attach(raw.channels, id),
     members      |-> attach(raw.members, id),
     roles        |-> attach(raw.roles, id),
     emojis       |-> attach(raw.emojis, id),
     voice_states |-> attach(raw.voice_states, id)]

\* The five collections of the decoded snapshot of a guild holding ms, rl and
\* vs, every entity carrying guild_id g.
Decoded(ms, rl, vs, g) ==
    [channels     |-> [k \in ChannelIds |-> g],
     members      |-> [k \in DOMAIN ms |-> g],
     roles        |-> [k \in DOMAIN rl |-> g],
     emojis       |-> [k \in EmojiIds |-> g],
     voice_states |-> [k \in Sessions(vs) |-> g]]

\* The locals of a concurrent caller of get_member or get_permissions: the
\* operation it called, its argument, the member its fetch returned and the
\* guild_id that member carries, the number of fetches it issued and what it
\* returned (while get_permissions runs: what its get_member returned).
NoLocals ==
    [op |-> "", user |-> 0, fetched |-> NoMember, guild_id |-> 0, fetches |-> 0,
     res |-> NoReturn]

\* The state of a guild just built that no call has touched yet.
Fresh ==
    /\ synced = FALSE
    /\ gw = <<>>
    /\ last = [call |-> NoCall, before |-> Before, args |-> NoArgs]
    /\ pc = [c \in Callers |-> "idle"]
    /\ built = TRUE
    /\ children = Guild_init(Decoded(members, roles, voice_states, 0))
    /\ requests = <<>>
    /\ loc = [c \in Callers |-> NoLocals]
    /\ writer = ""

\* children once the members map is ms: get_member stores the member that
\* client.api.guilds_members_get returned as it is (line 311 attaches nothing),
\* so a member new to the map keeps the guild_id g it carried.
Adopt(ms, g) ==
    [children EXCEPT !.members =
        [k \in DOMAIN ms |-> IF k \in DOMAIN children.members
                             THEN children.members[k] ELSE g]]

Init ==
    /\ id \in GuildIds
    /\ owner_id \in OwnerIds
    /\ members \in {m \in Dicts(UserIds, Members) : \A u \in DOMAIN m : m[u].id = u}
    /\ roles \in Dicts(RoleIds, PermValues)
    /\ voice_states = <<>>
    /\ Fresh

\* ---------------------------------------------------------- construction

\* Most voice states a guild holds.
MaxVoiceStates == 2

\* The lists of at most n voice states with distinct session ids.
VoiceLists(n) ==
    {vs \in SeqsUpTo([session_id : SessionIds, user_id : UserIds], n) :
        \A i, j \in DOMAIN vs : vs[i].session_id = vs[j].session_id => i = j}

\* The decoded snapshots of a guild holding ms, rl and vs: each entity of each
\* collection carries any guild_id.
Snapshots(ms, rl, vs) ==
    [channels     : Dicts(ChannelIds, CarriedIds),
     members      : [DOMAIN ms -> CarriedIds],
     roles        : [DOMAIN rl -> CarriedIds],
     emojis       : Dicts(EmojiIds, CarriedIds),
     voice_states : [Sessions(vs) -> CarriedIds]]

\* A guild whose fields are decoded and whose __init__ has not run yet.
InitBuild ==
    /\ id \in GuildIds
    /\ owner_id \in OwnerIds
    /\ members \in {m \in Dicts(UserIds, Members) :
                       \A u \in DOMAIN m : m[u].id = u /\ m[u].roles = <<>>}
    /\ roles \in Dicts({1, 5}, {3})
    /\ voice_states \in VoiceLists(1)
    /\ synced = FALSE
    /\ gw = <<>>
    /\ last = [call |-> NoCall, before |-> Before, args |-> NoArgs]
    /\ pc = [c \in Callers |-> "idle"]
    /\ built = FALSE
    /\ children \in Snapshots(members, roles, voice_states)
    /\ requests = <<>>
    /\ loc = [c \in Callers |-> NoLocals]
    /\ writer = ""

\* Guild.__init__ (lines 253-260).
Construct ==
    /\ ~built
    /\ built' = TRUE
    /\ children' = Guild_init(children)
    /\ UNCHANGED <<id, owner_id, members, roles, synced, gw, last, pc,
                   voice_states, requests, loc, writer>>

\* ------------------------------------------------------------ get_member

\* get_member remembering a failed fetch: it stores the absent result.
get_member_cachesFailure(user, outcome, fetched) ==
    IF user \notin DOMAIN members
    THEN IF outcome = "ok"
         THEN LET ms == dict_set(members, user, fetched)
              IN [members |-> ms, res |-> dict_get(ms, user), fetches |-> 1]
         ELSE [members |-> dict_set(members, user, NoMember), res |-> ReturnNone,
               fetches |-> 1]
    ELSE [members |-> members,
          res |-> IF members[user] = NoMember THEN ReturnNone
                  ELSE dict_get(members, user),
          fetches |-> 0]

\* get_member returning the fetched member without storing it.
get_member_noInsert(user, outcome, fetched) ==
    IF user \notin DOMAIN members
    THEN IF outcome = "ok"
         THEN [members |-> members, res |-> ReturnMember(fetched), fetches |-> 1]
         ELSE [members |-> members, res |-> ReturnNone, fetches |-> 1]
    ELSE [members |-> members, res |-> dict_get(members, user), fetches |-> 0]

\* get_member fetching on every call, cached or not.
get_member_alwaysFetch(user, outcome, fetched) ==
    IF outcome = "ok"
    THEN LET ms == dict_set(members, user, fetched)
         IN [members |-> ms, res |-> dict_get(ms, user), fetches |-> 1]
    ELSE [members |-> members, res |-> dict_get(members, user), fetches |-> 1]

\* Guild.get_member(user): the members map afterwards, the value returned and
\* the number of remote fetches issued.  The remote fetch (issued on a miss
\* only) ends in outcome and, when it succeeds, returns fetched.
get_member(user, outcome, fetched) ==
    IF user \notin DOMAIN members
    THEN IF outcome = "ok"
         THEN LET ms == dict_set(members, user, fetched)
              IN [members |-> ms, res |-> dict_get(ms, user), fetches |-> 1]
         ELSE [members |-> members, res |-> ReturnNone, fetches |-> 1]
    ELSE [members |-> members, res |-> dict_get(members, user), fetches |-> 0]

\* A whole get_member call: a hit, or a miss whose fetch is answered before
\* any other call runs.  (A miss during whose fetch other calls run is GmWait
\* followed by Resume.)
GetMember ==
    \E user \in UserIds :
      \E a \in Answers(user, get_member(user, Refused.outcome, Refused.fetched).fetches) :
        LET r == get_member(user, a.outcome, a.fetched)
        IN /\ members' = r.members
           /\ last' = [call |-> Call("get_member", user, r.res, r.fetches,
                                     Fetched(a, r.fetches), 0),
                       before |-> Before, args |-> NoArgs]
           /\ children' = Adopt(r.members, a.guild_id)
           /\ requests' = <<>>
           /\ UNCHANGED <<id, owner_id, roles, synced, gw, pc, rest>>

\* The cache write of line 311 kept from replacing an entry already there.
store_keepsFirst(user, fetched) ==
    IF user \in DOMAIN members THEN members ELSE dict_set(members, user, fetched)

\* Line 311, the assignment: `self.members[user] = <fetched>`.
store(user, fetched) == dict_set(members, user, fetched)

\* Lines 311-315 of a call that found user missing at line 309, from the
\* moment guilds_members_get answers: the members map afterwards and what
\* get_member returns.  The store replaces whatever another call put under
\* the key while this one waited.
after_fetch(user, outcome, fetched) ==
    IF outcome = "ok"
    THEN LET ms == store(user, fetched)
         IN [members |-> ms, res |-> dict_get(ms, user)]
    ELSE [members |-> members, res |-> ReturnNone]

\* The guild_id of the member entities once line 311 has stored under user a
\* member carrying g: the stored object is the fetched one, as it came.
Stored(ms, user, g) ==
    [children EXCEPT !.members =
        [k \in DOMAIN ms |-> IF k = user THEN g ELSE children.members[k]]]

\* ------------------------------------------------------- get_permissions

\* The loop assigning where it should accumulate: value = role.permissions.
RECURSIVE Accumulate_assign(_, _)
Accumulate_assign(value, rs) ==
    IF rs = <<>> THEN ReturnValue(value)
    ELSE IF Head(rs) \notin DOMAIN roles THEN Raise("AttributeError")
    ELSE Accumulate_assign(roles[Head(rs)], Tail(rs))

\* The loop of get_permissions: value += role.permissions for each role that
\* self.roles.get yields for the ids in rs, in order.  roles.get yields None
\* for an id that is no key, and None.permissions raises AttributeError.
RECURSIVE Accumulate(_, _)
Accumulate(value, rs) ==
    IF rs = <<>> THEN ReturnValue(value)
    ELSE IF Head(rs) \notin DOMAIN roles THEN Raise("AttributeError")
    ELSE Accumulate(PermAdd(value, roles[Head(rs)]), Tail(rs))

\* get_permissions without the owner short-circuit.
get_permissions_noOwner(user, outcome, fetched) ==
    LET g == get_member(user, outcome, fetched)
    IN [members |-> g.members,
        roles   |-> roles,
        fetches |-> g.fetches,
        res     |-> IF id \notin DOMAIN roles
                    THEN Raise("AttributeError")
                    ELSE IF g.res.kind # "member"
                    THEN Raise("AttributeError")
                    ELSE Accumulate(roles[id], g.res.member.roles)]

\* get_permissions treating a missing member as a member without roles.
get_permissions_silent(user, outcome, fetched) ==
    IF owner_id = user
    THEN [members |-> members, roles |-> roles,
          res |-> ReturnValue(ADMINISTRATOR), fetches |-> 0]
    ELSE LET g == get_member(user, outcome, fetched)
         IN [members |-> g.members,
             roles   |-> roles,
             fetches |-> g.fetches,
             res     |-> IF id \notin DOMAIN roles
                         THEN Raise("AttributeError")
                         ELSE Accumulate(roles[id], g.res.member.roles)]

\* get_permissions looking the member up only in the map, never remotely.
get_permissions_lookupOnly(user, outcome, fetched) ==
    IF owner_id = user
    THEN [members |-> members, roles |-> roles,
          res |-> ReturnValue(ADMINISTRATOR), fetches |-> 0]
    ELSE LET g == dict_get(members, user)
         IN [members |-> members,
             roles   |-> roles,
             fetches |-> 0,
             res     |-> IF id \notin DOMAIN roles
                         THEN Raise("AttributeError")
                         ELSE IF g.kind # "member"
                         THEN Raise("AttributeError")
                         ELSE Accumulate(roles[id], g.member.roles)]

\* get_permissions accumulating into the everyone role's own PermissionValue
\* instead of a copy of it.
get_permissions_aliased(user, outcome, fetched) ==
    IF owner_id = user
    THEN [members |-> members, roles |-> roles,
          res |-> ReturnValue(ADMINISTRATOR), fetches |-> 0]
    ELSE LET g == get_member(user, outcome, fetched)
             res == IF id \notin DOMAIN roles
                    THEN Raise("AttributeError")
                    ELSE IF g.res.kind # "member"
                    THEN Raise("AttributeError")
                    ELSE Accumulate(roles[id], g.res.member.roles)
         IN [members |-> g.members,
             roles   |-> IF res.kind = "value"
                         THEN [roles EXCEPT ![id] = res.value] ELSE roles,
             fetches |-> g.fetches,
             res     |-> res]

\* Lines 275-280 for the value member that get_member returned: the everyone
\* role missing or member None raise AttributeError (None.permissions at line
\* 275, None.roles at line 277).
permissions_of(member) ==
    IF id \notin DOMAIN roles
    THEN Raise("AttributeError")
    ELSE IF member.kind # "member"
    THEN Raise("AttributeError")
    ELSE Accumulate(roles[id], member.member.roles)

\* Guild.get_permissions(user): the members and roles maps afterwards, the
\* value returned (or the exception raised) and the number of remote fetches
\* issued.  outcome and fetched are those of the fetch get_member may issue.
\* The accumulator is PermissionValue(everyone.permissions), a value of its
\* own, so the loop writes to no role.
get_permissions(user, outcome, fetched) ==
    IF owner_id = user
    THEN [members |-> members, roles |-> roles,
          res |-> ReturnValue(ADMINISTRATOR), fetches |-> 0]
    ELSE LET g == get_member(user, outcome, fetched)
         IN [members |-> g.members,
             roles   |-> roles,
             fetches |-> g.fetches,
             res     |-> permissions_of(g.res)]

\* A whole get_permissions call: the owner's, one whose get_member is a hit,
\* or one whose fetch is answered before any other call runs.  (A call during
\* whose fetch other calls run is GpWait followed by Resume.)
GetPermissions ==
    \E user \in UserIds :
      \E a \in Answers(user, get_permissions(user, Refused.outcome, Refused.fetched).fetches) :
        LET r == get_permissions(user, a.outcome, a.fetched)
        IN /\ members' = r.members
           /\ roles' = r.roles
           /\ last' = [call |-> Call("get_permissions", user, r.res, r.fetches,
                                     Fetched(a, r.fetches), 0),
                       before |-> Before, args |-> NoArgs]
           /\ children' = Adopt(r.members, a.guild_id)
           /\ requests' = <<>>
           /\ UNCHANGED <<id, owner_id, synced, gw, pc, rest>>

\* ------------------------------------- calls that wait for their fetch

\* Lines 307-311 of get_member(user) up to the call of guilds_members_get,
\* for a user that is no key of the members map: caller c now waits for the
\* remote, and other calls run meanwhile.
GmWait(c) ==
    /\ pc[c] = "idle"
    /\ \E user \in UserIds :
          /\ user \notin DOMAIN members
          /\ loc' = [loc EXCEPT ![c].op = "get_member", ![c].user = user]
    /\ pc' = [pc EXCEPT ![c] = "wait"]
    /\ UNCHANGED <<id, owner_id, members, roles, synced, gw, last,
                   requests, children, voice_states, built, writer>>

\* Lines 271-274 of get_permissions(user) and then lines 307-311 of its
\* get_member(user) up to the call of guilds_members_get, for a user that is
\* not the owner and no key of the members map.
GpWait(c) ==
    /\ pc[c] = "idle"
    /\ \E user \in UserIds :
          /\ owner_id # user
          /\ user \notin DOMAIN members
          /\ loc' = [loc EXCEPT ![c].op = "get_permissions", ![c].user = user]
    /\ pc' = [pc EXCEPT ![c] = "wait"]
    /\ UNCHANGED <<id, owner_id, members, roles, synced, gw, last,
                   requests, children, voice_states, built, writer>>

\* What the call of a waiting caller returns once its get_member returned
\* member: the member itself, or lines 275-280 on it.
resumed(op, member) ==
    IF op = "get_member" THEN member ELSE permissions_of(member)

\* guilds_members_get answers caller c and its call runs to its end: lines
\* 311-315, and for get_permissions lines 275-280.  The call is recorded with
\* the guild as the answer found it.
Resume(c) ==
    /\ pc[c] = "wait"
    /\ \E a \in Answers(loc[c].user, 1) :
          LET r == after_fetch(loc[c].user, a.outcome, a.fetched)
          IN /\ members' = r.members
             /\ last' = [call |-> [Call(loc[c].op, loc[c].user,
                                        resumed(loc[c].op, r.res), 1,
                                        Fetched(a, 1), 0)
                                      EXCEPT !.hit = FALSE, !.quiet = FALSE],
                         before |-> Before, args |-> NoArgs]
             /\ children' = IF a.outcome = "ok"
                            THEN Stored(r.members, loc[c].user, a.guild_id)
                            ELSE children
    /\ requests' = <<>>
    /\ pc' = [pc EXCEPT ![c] = "idle"]
    /\ loc' = [loc EXCEPT ![c] = NoLocals]
    /\ UNCHANGED <<id, owner_id, roles, synced, gw, voice_states, built,
                   writer>>

\* ------------------------------------------------------------------ sync

\* Cap on the packets recorded in gw.
MaxSends == 3

\* The payload of the REQUEST_GUILD_MEMBERS packet sync() sends; delivered
\* records whether client.gw.send returned or raised.
RequestGuildMembers(outcome) ==
    [op |-> "REQUEST_GUILD_MEMBERS", guild_id |-> id, query |-> "", limit |-> 0,
     delivered |-> (outcome = "ok")]

\* sync() that sends without setting the flag.
sync_noFlag(outcome) ==
    IF synced
    THEN [synced |-> synced, gw |-> gw, res |-> ReturnNone, sends |-> 0]
    ELSE [synced |-> synced,
          gw     |-> Append(gw, RequestGuildMembers(outcome)),
          res    |-> IF outcome = "ok" THEN ReturnNone ELSE Raise("Exception"),
          sends  |-> 1]

\* sync() that clears the flag when it finds it set.
sync_resets(outcome) ==
    IF synced
    THEN [synced |-> FALSE, gw |-> gw, res |-> ReturnNone, sends |-> 0]
    ELSE [synced |-> TRUE,
          gw     |-> Append(gw, RequestGuildMembers(outcome)),
          res    |-> IF outcome = "ok" THEN ReturnNone ELSE Raise("Exception"),
          sends  |-> 1]

\* sync() that sends first and sets the flag once the send has returned.
sync_sendFirst(outcome) ==
    IF synced
    THEN [synced |-> synced, gw |-> gw, res |-> ReturnNone, sends |-> 0]
    ELSE [synced |-> (outcome = "ok"),
          gw     |-> Append(gw, RequestGuildMembers(outcome)),
          res    |-> IF outcome = "ok" THEN ReturnNone ELSE Raise("Exception"),
          sends  |-> 1]

\* Guild.sync(): the flag and the gateway log afterwards, the value returned
\* and the number of packets handed to client.gw.send.  outcome is that of
\* the send, if one is made.
sync(outcome) ==
    IF synced
    THEN [synced |-> synced, gw |-> gw, res |-> ReturnNone, sends |-> 0]
    ELSE [synced |-> TRUE,
          gw     |-> Append(gw, RequestGuildMembers(outcome)),
          res    |-> IF outcome = "ok" THEN ReturnNone ELSE Raise("Exception"),
          sends  |-> 1]

Sync ==
    \E outcome \in GwOutcomes :
        LET r == sync(outcome)
        IN /\ Len(gw) < MaxSends
           /\ synced' = r.synced
           /\ gw' = r.gw
           /\ last' = [call |-> Call("sync", 0, r.res, 0, NoMember, r.sends),
                       before |-> Before, args |-> NoArgs]
           /\ requests' = <<>>
           /\ UNCHANGED <<id, owner_id, members, roles, pc, children, rest>>

\* ------------------------------------------------------- get_voice_state

\* The scan returning the last matching state instead of the first.
RECURSIVE ScanBack(_, _, _)
ScanBack(vs, user, i) ==
    IF i < 1 THEN ReturnNone
    ELSE IF vs[i].user_id = user THEN ReturnState(vs[i])
    ELSE ScanBack(vs, user, i - 1)

get_voice_state_lastMatch(user) ==
    [res          |-> ScanBack(voice_states, user, Len(voice_states)),
     voice_states |-> voice_states,
     members      |-> members,
     requests     |-> <<>>]

\* The loop of lines 294-296 from the i-th value of the map on: the first
\* state whose user_id is user, None when the loop runs out.
RECURSIVE Scan(_, _, _)
Scan(vs, user, i) ==
    IF i > Len(vs) THEN ReturnNone
    ELSE IF vs[i].user_id = user THEN ReturnState(vs[i])
    ELSE Scan(vs, user, i + 1)

\* Guild.get_voice_state (lines 292-296); user is to_snowflake(user).
get_voice_state(user) ==
    [res          |-> Scan(voice_states, user, 1),
     voice_states |-> voice_states,
     members      |-> members,
     requests     |-> <<>>]

GetVoiceState ==
    \E u \in UserIds :
        LET r == get_voice_state(u)
        IN /\ voice_states' = r.voice_states
           /\ members' = r.members
           /\ requests' = r.requests
           /\ last' = [call |-> Call("get_voice_state", u, r.res, 0, NoMember, 0),
                       before |-> Before, args |-> NoArgs]
           /\ UNCHANGED <<id, owner_id, roles, synced, gw, pc, children, built,
                          loc, writer>>

\* -------------------------------------------------------------- dispatch

\* Outcomes of a client.api method: it returns, or raises APIException.
ApiOutcomes == {"ok", "APIException"}

\* Values of delete_message_days.
Days == {0, 7}

\* The nickname argument None, and the nicknames set_nickname is called with.
NoNick == "<None>"
Nicknames == {NoNick, "", "bob"}

\* A request to client.api made for guild g: the method, the guild id and the
\* target (a user or role id, 0 for none), before its payload is filled in.
RequestIn(g, name, target) ==
    [name |-> name, guild_id |-> g, target |-> target, roles |-> <<>>,
     nick |-> "", days |-> 0, permissions |-> 0, outcome |-> ""]

\* A request made by the guild itself, with self.id.
Request(name, target) == RequestIn(id, name, target)

\* GuildSubType.guild (line 30) of an entity carrying guild_id gid:
\* self.client.state.guilds.get(self.guild_id), the id of the guild found or 0
\* for None.  None is no key; any other id, this guild's own included, is a
\* key of client.state.guilds or not.
Resolutions(gid) ==
    IF gid = 0 THEN {0} ELSE {0, gid}

\* One call of a client.api method with request req, ending in outcome and
\* returning returns when it does not raise: the requests issued, what the
\* caller gets, and the members and roles maps afterwards.
dispatch(req, outcome, returns) ==
    [requests |-> <<[req EXCEPT !.outcome = outcome]>>,
     res      |-> IF outcome = "ok" THEN returns ELSE Raise(outcome),
     members  |-> members,
     roles    |-> roles]

\* A method of an entity whose self.guild is None: evaluating self.guild.id
\* (or self.guild.<method>) raises AttributeError before anything is sent.
NoGuild ==
    [requests |-> <<>>,
     res      |-> Raise("AttributeError"),
     members  |-> members,
     roles    |-> roles]

\* GuildMember.kick (line 141); g is what self.guild resolves to.
kick(m, g, outcome) ==
    IF g = 0 THEN NoGuild
    ELSE dispatch(RequestIn(g, "guilds_members_kick", m.id), outcome, ReturnNone)

\* Guild.create_ban (line 362).
create_ban(user, delete_message_days, outcome) ==
    dispatch([Request("guilds_bans_create", user) EXCEPT !.days = delete_message_days],
             outcome, ReturnNone)

\* GuildMember.ban (line 152): self.guild.create_ban(self, delete_message_days),
\* which is line 362 run by the guild g that self.guild resolves to.
ban(m, g, delete_message_days, outcome) ==
    IF g = 0 THEN NoGuild
    ELSE dispatch([RequestIn(g, "guilds_bans_create", m.id)
                      EXCEPT !.days = delete_message_days],
                  outcome, ReturnNone)

\* `nickname or ''` (line 163).
nick_or_empty(nickname) == IF nickname \in {NoNick, ""} THEN "" ELSE nickname

\* GuildMember.set_nickname (line 163); g is what self.guild resolves to.
set_nickname(m, g, nickname, outcome) ==
    IF g = 0 THEN NoGuild
    ELSE dispatch([RequestIn(g, "guilds_members_modify", m.id)
                      EXCEPT !.nick = nick_or_empty(nickname)],
                  outcome, ReturnNone)

\* GuildMember.add_role (lines 166-167); role is role.id, g is what
\* self.guild resolves to.
add_role(m, g, role, outcome) ==
    IF g = 0 THEN NoGuild
    ELSE dispatch([RequestIn(g, "guilds_members_modify", m.id)
                      EXCEPT !.roles = m.roles \o <<role>>],
                  outcome, ReturnNone)

\* create_role storing the role it created in the roles map.
create_role_stores(outcome) ==
    [requests |-> <<[Request("guilds_roles_create", 0) EXCEPT !.outcome = outcome]>>,
     res      |-> IF outcome = "ok" THEN ReturnRemote ELSE Raise(outcome),
     members  |-> members,
     roles    |-> IF outcome = "ok" /\ RoleIds \ DOMAIN roles # {}
                  THEN dict_set(roles, CHOOSE r \in RoleIds : r \notin DOMAIN roles, 0)
                  ELSE roles]

\* Guild.create_role (line 326).
create_role(outcome) ==
    dispatch(Request("guilds_roles_create", 0), outcome, ReturnRemote)

\* Guild.delete_role (line 332); role is to_snowflake(role).
delete_role(role, outcome) ==
    dispatch(Request("guilds_roles_delete", role), outcome, ReturnNone)

\* Guild.update_role (lines 335-342); role is a Role given by its id and its
\* permissions.value.
update_role(role, outcome) ==
    dispatch([Request("guilds_roles_modify", role.id)
                 EXCEPT !.permissions = role.permissions],
             outcome, ReturnRemote)

\* Role.save (line 91): self.guild.update_role(self), which is lines 335-342 run
\* by the guild g that self.guild resolves to; the value update_role returns
\* is dropped.
save(role, g, outcome) ==
    IF g = 0 THEN NoGuild
    ELSE dispatch([RequestIn(g, "guilds_roles_modify", role.id)
                      EXCEPT !.permissions = role.permissions],
                  outcome, ReturnNone)

\* Role.delete (line 88): self.guild.delete_role(self), which is line 332 run
\* by the guild g that self.guild resolves to.
delete(role, g, outcome) ==
    IF g = 0 THEN NoGuild
    ELSE dispatch(RequestIn(g, "guilds_roles_delete", role.id), outcome, ReturnNone)

\* Guild.get_bans (line 356).
get_bans(outcome) ==
    dispatch(Request("guilds_bans_list", 0), outcome, ReturnRemote)

\* Guild.delete_ban (line 359); user is to_snowflake(user).
delete_ban(user, outcome) ==
    dispatch(Request("guilds_bans_delete", user), outcome, ReturnNone)

\* The step of a dispatching operation op called for user with arguments
\* args, r being what the operation did.
Dispatched(op, user, args, r) ==
    /\ members' = r.members
    /\ roles' = r.roles
    /\ requests' = r.requests
    /\ last' = [call |-> Call(op, user, r.res, 0, NoMember, 0),
                before |-> Before, args |-> args]
    /\ UNCHANGED <<id, owner_id, synced, gw, pc, children, rest>>

\* The methods of a member of the members map; its self.guild resolves from
\* the guild_id the member carries.
Kick ==
    \E u \in DOMAIN members, o \in ApiOutcomes :
      \E g \in Resolutions(children.members[u]) :
        Dispatched("kick", u, NoArgs, kick(members[u], g, o))

Ban ==
    \E u \in DOMAIN members, d \in Days, o \in ApiOutcomes :
      \E g \in Resolutions(children.members[u]) :
        Dispatched("ban", u, [NoArgs EXCEPT !.days = d], ban(members[u], g, d, o))

SetNickname ==
    \E u \in DOMAIN members, n \in Nicknames, o \in ApiOutcomes :
      \E g \in Resolutions(children.members[u]) :
        Dispatched("set_nickname", u, [NoArgs EXCEPT !.nick = n],
                   set_nickname(members[u], g, n, o))

AddRole ==
    \E u \in DOMAIN members, r \in RoleIds, o \in ApiOutcomes :
      \E g \in Resolutions(children.members[u]) :
        Dispatched("add_role", u, [NoArgs EXCEPT !.role = r],
                   add_role(members[u], g, r, o))

\* The methods of a role of the roles map.
RoleSave ==
    \E r \in DOMAIN roles, o \in ApiOutcomes :
      \E g \in Resolutions(children.roles[r]) :
        Dispatched("save", 0, [NoArgs EXCEPT !.role = r, !.permissions = roles[r]],
                   save([id |-> r, permissions |-> roles[r]], g, o))

RoleDelete ==
    \E r \in DOMAIN roles, o \in ApiOutcomes :
      \E g \in Resolutions(children.roles[r]) :
        Dispatched("delete", 0, [NoArgs EXCEPT !.role = r],
                   delete([id |-> r, permissions |-> roles[r]], g, o))

CreateRole ==
    \E o \in ApiOutcomes : Dispatched("create_role", 0, NoArgs, create_role(o))

DeleteRole ==
    \E r \in RoleIds, o \in ApiOutcomes :
        Dispatched("delete_role", 0, [NoArgs EXCEPT !.role = r], delete_role(r, o))

UpdateRole ==
    \E r \in RoleIds, p \in PermValues, o \in ApiOutcomes :
        Dispatched("update_role", 0, [NoArgs EXCEPT !.role = r, !.permissions = p],
                   update_role([id |-> r, permissions |-> p], o))

GetBans ==
    \E o \in ApiOutcomes : Dispatched("get_bans", 0, NoArgs, get_bans(o))

CreateBan ==
    \E u \in UserIds, d \in Days, o \in ApiOutcomes :
        Dispatched("create_ban", u, [NoArgs EXCEPT !.days = d], create_ban(u, d, o))

DeleteBan ==
    \E u \in UserIds, o \in ApiOutcomes :
        Dispatched("delete_ban", u, NoArgs, delete_ban(u, o))

\* The dispatching operations of GuildMember, of Role and of Guild.
MemberDispatch == Kick \/ Ban \/ SetNickname \/ AddRole
RoleDispatch == RoleSave \/ RoleDelete
GuildDispatch ==
    CreateRole \/ DeleteRole \/ UpdateRole \/ GetBans \/ CreateBan \/ DeleteBan

\* --------------------------------------------- concurrent callers of sync

\* Line 345: `if self.synced: return`.
SyncRead(c) ==
    /\ pc[c] = "idle"
    /\ pc' = [pc EXCEPT ![c] = IF synced THEN "done" ELSE "set"]
    /\ UNCHANGED <<id, owner_id, members, roles, synced, gw, last,
                   requests, children, rest>>

\* Line 348: `self.synced = True`.
SyncSet(c) ==
    /\ pc[c] = "set"
    /\ synced' = TRUE
    /\ pc' = [pc EXCEPT ![c] = "send"]
    /\ UNCHANGED <<id, owner_id, members, roles, gw, last, requests,
                   children, rest>>

\* Lines 349-353: `self.client.gw.send(OPCode.REQUEST_GUILD_MEMBERS, {...})`.
SyncSend(c) ==
    /\ pc[c] = "send"
    /\ Len(gw) < MaxSends
    /\ \E outcome \in GwOutcomes : gw' = Append(gw, RequestGuildMembers(outcome))
    /\ pc' = [pc EXCEPT ![c] = "done"]
    /\ UNCHANGED <<id, owner_id, members, roles, synced, last, requests,
                   children, rest>>

\* --------------------------------------- concurrent callers of get_member

\* Line 307: a caller enters get_member(user); user is to_snowflake(user).
GmCall(c) ==
    /\ pc[c] = "idle"
    /\ \E user \in UserIds :
          loc' = [loc EXCEPT ![c].op = "get_member", ![c].user = user]
    /\ pc' = [pc EXCEPT ![c] = "check"]
    /\ UNCHANGED <<id, owner_id, members, roles, synced, gw, last,
                   requests, children, voice_states, built, writer>>

\* Lines 271-274: a caller enters get_permissions(user); the owner gets the
\* administrator value at once, anyone else goes into get_member.
GpCall(c) ==
    /\ pc[c] = "idle"
    /\ \E user \in UserIds :
          IF owner_id = user
          THEN /\ loc' = [loc EXCEPT ![c].op = "get_permissions",
                                     ![c].user = user,
                                     ![c].res = ReturnValue(ADMINISTRATOR)]
               /\ pc' = [pc EXCEPT ![c] = "done"]
          ELSE /\ loc' = [loc EXCEPT ![c].op = "get_permissions",
                                     ![c].user = user]
               /\ pc' = [pc EXCEPT ![c] = "check"]
    /\ UNCHANGED <<id, owner_id, members, roles, synced, gw, last,
                   requests, children, voice_states, built, writer>>

\* Line 309: `if user not in self.members`.
GmCheck(c) ==
    /\ pc[c] = "check"
    /\ pc' = [pc EXCEPT ![c] = IF loc[c].user \notin DOMAIN members
                               THEN "fetch" ELSE "return"]
    /\ UNCHANGED <<id, owner_id, members, roles, synced, gw, last,
                   requests, children, rest>>

\* Where a caller goes once its get_member has returned: a get_member caller
\* is done, a get_permissions caller goes on to line 275.
AfterGetMember(c) == IF loc[c].op = "get_member" THEN "done" ELSE "value"

\* Line 311, the right-hand side: the blocking
\* `self.client.api.guilds_members_get(self.id, user)`; on APIException
\* get_member returns None (lines 312-313).
GmFetch(c) ==
    /\ pc[c] = "fetch"
    /\ \E a \in Answers(loc[c].user, 1) :
          IF a.outcome = "ok"
          THEN /\ loc' = [loc EXCEPT ![c].fetched = a.fetched,
                                     ![c].guild_id = a.guild_id,
                                     ![c].fetches = @ + 1]
               /\ pc' = [pc EXCEPT ![c] = "store"]
          ELSE /\ loc' = [loc EXCEPT ![c].fetches = @ + 1,
                                     ![c].res = ReturnNone]
               /\ pc' = [pc EXCEPT ![c] = AfterGetMember(c)]
    /\ UNCHANGED <<id, owner_id, members, roles, synced, gw, last,
                   requests, children, voice_states, built, writer>>

\* Line 311, the assignment.
GmStore(c) ==
    /\ pc[c] = "store"
    /\ members' = store(loc[c].user, loc[c].fetched)
    /\ children' = Stored(members', loc[c].user, loc[c].guild_id)
    /\ writer' = c
    /\ pc' = [pc EXCEPT ![c] = "return"]
    /\ UNCHANGED <<id, owner_id, roles, synced, gw, last, requests,
                   voice_states, built, loc>>

\* Line 315: `return self.members.get(user)`.
GmReturn(c) ==
    /\ pc[c] = "return"
    /\ loc' = [loc EXCEPT ![c].res = dict_get(members, loc[c].user)]
    /\ pc' = [pc EXCEPT ![c] = AfterGetMember(c)]
    /\ UNCHANGED <<id, owner_id, members, roles, synced, gw, last,
                   requests, children, voice_states, built, writer>>

\* Lines 275-280 of a get_permissions caller, on the member its get_member
\* returned.
GpValue(c) ==
    /\ pc[c] = "value"
    /\ loc' = [loc EXCEPT ![c].res = permissions_of(loc[c].res)]
    /\ pc' = [pc EXCEPT ![c] = "done"]
    /\ UNCHANGED <<id, owner_id, members, roles, synced, gw, last,
                   requests, children, voice_states, built, writer>>

\* -------------------------------------------------------- specifications

\* The lookups get_member and get_permissions: whole calls, and one caller
\* whose call waits in guilds_members_get while the others' calls run.  The
\* guilds are those of Init with no role at all, with the everyone role
\* alone, with role 5 too, or with roles 5 and 6 too; the everyone role
\* grants 3, the others 6.
LookupRoles ==
    /\ DOMAIN roles \in {{}, {id}, {id, 5}, {id, 5, 6}}
    /\ \A r \in DOMAIN roles : roles[r] = (IF r = id THEN 3 ELSE 6)

\* Their owner is a cached member holding at most one role.
InitLookup ==
    /\ Init
    /\ LookupRoles
    /\ owner_id \in DOMAIN members
    /\ Len(members[owner_id].roles) <= 1

Next ==
    \/ GetMember
    \/ GetPermissions
    \/ \E c \in Waiters : GmWait(c) \/ GpWait(c) \/ Resume(c)

Spec == InitLookup /\ [][Next]_vars

\* get_permissions on the guilds of LookupRoles whose owner has no member
\* record.
InitOwner ==
    /\ Init
    /\ LookupRoles
    /\ owner_id \notin DOMAIN members

NextOwner ==
    \/ GetPermissions
    \/ \E c \in Waiters : GpWait(c) \/ Resume(c)

SpecOwner == InitOwner /\ [][NextOwner]_vars

\* Concurrent callers of sync(), one statement at a time.
NextConc ==
    \E c \in Callers :
        \/ SyncRead(c)
        \/ SyncSet(c)
        \/ SyncSend(c)

SpecConc == Init /\ [][NextConc]_vars

\* Construction of a guild from a decoded snapshot.
NextBuild == Construct

SpecBuild == InitBuild /\ [][NextBuild]_vars

\* The dispatching operations alone, on any decoded guild.
NextDispatch == MemberDispatch \/ RoleDispatch \/ GuildDispatch

\* The guilds the dispatching operations are run on: those of Init whose roles
\* all grant the same permissions (no dispatching operation reads them).
InitDispatch == Init /\ \A r \in DOMAIN roles : roles[r] = 3

SpecDispatch == InitDispatch /\ [][NextDispatch]_vars

\* get_voice_state alone, on guilds with up to MaxVoiceStates voice states
\* whose members have no roles.
InitVoice ==
    /\ id \in GuildIds /\ owner_id \in OwnerIds
    /\ members \in {m \in Dicts(UserIds, Members) :
                      \A u \in DOMAIN m : m[u] = GuildMember(u, <<>>)}
    /\ roles = [r \in {id} |-> 3]
    /\ voice_states \in VoiceLists(MaxVoiceStates)
    /\ Fresh

NextVoice == GetVoiceState

SpecVoice == InitVoice /\ [][NextVoice]_vars

\* Every operation of the guild, its members and its roles: whole calls, and
\* one caller whose lookup waits in guilds_members_get while the others run;
\* on guilds with an everyone role and one more role, whose owner is a cached
\* member, whose cached members hold that role, and where the owner is
\* connected to voice.
InitAll ==
    /\ id \in GuildIds /\ owner_id \in OwnerIds
    /\ members \in {m \in Dicts(UserIds, Members) :
                      /\ owner_id \in DOMAIN m
                      /\ \A u \in DOMAIN m : m[u] = GuildMember(u, <<5>>)}
    /\ roles = [r \in {id, 5} |-> IF r = id THEN 3 ELSE 6]
    /\ voice_states = <<VoiceState("s1", owner_id)>>
    /\ Fresh

NextAll ==
    \/ GetMember
    \/ GetPermissions
    \/ \E c \in Waiters : GmWait(c) \/ GpWait(c) \/ Resume(c)
    \/ Sync
    \/ GetVoiceState
    \/ MemberDispatch
    \/ RoleDispatch
    \/ GuildDispatch

SpecAll == InitAll /\ [][NextAll]_vars

\* Two callers of get_member or get_permissions whose statements interleave,
\* on guilds whose cached members hold one role.
InitConcMember ==
    /\ id \in GuildIds /\ owner_id \in OwnerIds
    /\ members \in {m \in Dicts(UserIds, Members) :
                      \A u \in DOMAIN m : m[u] = GuildMember(u, <<5>>)}
    /\ roles = [r \in {id, 5} |-> IF r = id THEN 3 ELSE 6]
    /\ voice_states = <<>>
    /\ Fresh

NextConcMember ==
    \E c \in Callers :
        \/ GmCall(c)
        \/ GpCall(c)
        \/ GmCheck(c)
        \/ GmFetch(c)
        \/ GmStore(c)
        \/ GmReturn(c)
        \/ GpValue(c)

SpecConcMember == InitConcMember /\ [][NextConcMember]_vars

\* ---------------------------------------------------------------- claims

\* The set of elements of a sequence.
Range(q) == {q[i] : i \in DOMAIN q}

\* The bits set in a bitset, and whether bit i is set.
BitSet(n, i) == (n \div (2 ^ i)) % 2 = 1
Bits(n) == {i \in 0..(PermBits - 1) : BitSet(n, i)}

\* c is a get_member call whose remote fetch was refused.
FetchRefused(c) == c.fetches > 0 /\ c.fetched = NoMember

\* c is a call whose remote fetch returned a member.
FetchReturned(c) == c.fetches > 0 /\ c.fetched # NoMember

\* The last call was op, made for a user that was (hit) or was not a key of
\* the members map.
LastWas(op) == last.call.op = op
LastMiss(op) == LastWas(op) /\ ~last.call.hit
LastHit(op) == LastWas(op) /\ last.call.hit

\* The step completes a get_member call right after another get_member call
\* for the same id, and no other call was suspended inside the guild during
\* either.
TwoGetMembers ==
    /\ last' # last
    /\ last.call.op = "get_member" /\ last.call.quiet
    /\ last'.call.op = "get_member" /\ last'.call.quiet
    /\ last'.call.user = last.call.user

\* What C1 says of the state after a call.
C1_AfterCall ==
    (LastMiss("get_member") /\ last.call.fetched = NoMember)
        => /\ last.call.res = ReturnNone
           /\ last.call.fetches = 1
           /\ members = last.before.members
           /\ last.call.quiet => last.call.user \notin DOMAIN members

\* C1: get_member(id) for an id that is no key of the members map and whose
\* fetch raises APIException returns None, leaves the members map as it was
\* and issues exactly one fetch; the failure is not remembered: a get_member(id)
\* right after it again issues one fetch.
C1_MissFailureNotCached ==
    [][/\ C1_AfterCall'
       /\ (TwoGetMembers /\ ~last.call.hit /\ FetchRefused(last.call))
            => /\ ~last'.call.hit
               /\ last'.call.fetches = 1]_vars

\* C1 witness: a refused fetch on a miss that returned None and left a
\* non-empty members map without the id, so that the next call misses again.
C1_Witness ==
    /\ LastMiss("get_member") /\ last.call.quiet
    /\ FetchRefused(last.call)
    /\ last.call.res = ReturnNone
    /\ last.call.user \notin DOMAIN members
    /\ DOMAIN members # {}

\* The step keeps the entries the members map already has.
EntriesKept ==
    \A u \in DOMAIN members : u \in DOMAIN members' /\ members'[u] = members[u]

\* What C2 says of the state after a call.
C2_AfterCall ==
    /\ (LastMiss("get_member") /\ last.call.fetched # NoMember)
         => /\ last.call.fetches = 1
            /\ members = dict_set(last.before.members, last.call.user,
                                  last.call.fetched)
            /\ last.call.res = ReturnMember(last.call.fetched)
    /\ LastHit("get_member")
         => /\ last.call.fetches = 0
            /\ last.call.res = ReturnMember(last.before.members[last.call.user])

\* C2: get_member(id) for an id that is no key of the members map and whose
\* fetch succeeds issues exactly one fetch, stores the fetched member under
\* id and returns it; the entry then stays in the map, so every later
\* get_member(id) is a hit that returns that member without a fetch.  (Later
\* calls are calls made after the call returned; what a call suspended in its
\* own fetch stores when it resumes is C15's.)
C2_MissSuccessCached ==
    [][/\ C2_AfterCall'
       /\ last'.call.quiet => EntriesKept
       /\ (TwoGetMembers /\ ~last.call.hit /\ FetchReturned(last.call))
            => /\ last'.call.hit
               /\ last'.call.fetches = 0
               /\ last'.call.res = ReturnMember(last.call.fetched)]_vars

\* C2 witness: a successful fetch on a miss that stored a member with two
\* roles under the id and returned it.
C2_Witness ==
    /\ LastMiss("get_member") /\ last.call.quiet
    /\ FetchReturned(last.call)
    /\ last.call.user \in DOMAIN members
    /\ members[last.call.user] = last.call.fetched
    /\ last.call.res = ReturnMember(last.call.fetched)
    /\ Len(last.call.fetched.roles) = 2

\* What C3 says of the state after a call.
C3_AfterCall ==
    LastHit("get_member")
        => /\ last.call.fetches = 0
           /\ members = last.before.members
           /\ last.call.res.kind = "member"

\* C3: get_member(id) is idempotent on a hit: two consecutive calls for an id
\* that is a key of the members map return equal values (the entry), issue no
\* fetch and leave the members map as it was.
C3_HitIdempotent ==
    [][/\ C3_AfterCall'
       /\ (TwoGetMembers /\ last.call.hit)
            => /\ last'.call.hit
               /\ last.call.fetches = 0 /\ last'.call.fetches = 0
               /\ last'.call.res = last.call.res
               /\ members' = members]_vars

\* C3 witness: a hit that returned the entry, a member with roles, and left
\* the members map as it was.
C3_Witness ==
    /\ LastHit("get_member") /\ last.call.quiet
    /\ last.call.res = ReturnMember(members[last.call.user])
    /\ members = last.before.members
    /\ last.call.res.member.roles # <<>>

\* The REQUEST_GUILD_MEMBERS payload of sync(): guild_id, empty query, limit 0.
IsMemberRequest(p) ==
    /\ p.op = "REQUEST_GUILD_MEMBERS"
    /\ p.guild_id = id
    /\ p.query = ""
    /\ p.limit = 0

\* C4: sequential calls of sync() hand exactly one REQUEST_GUILD_MEMBERS
\* packet (guild_id, empty query, limit 0) to the gateway and leave synced
\* true; every call after the first is a no-op.  (A packet counts once sync()
\* has handed it to client.gw.send.)
C4_SyncOnce ==
    /\ Len(gw) <= 1
    /\ \A i \in DOMAIN gw : IsMemberRequest(gw[i])
    /\ synced <=> (Len(gw) = 1)
    /\ LastWas("sync")
         => /\ synced
            /\ Len(gw) = 1
            /\ last.call.sends = (IF last.before.synced THEN 0 ELSE 1)
            /\ last.before.synced => gw = last.before.gw

\* C4 witness: a sync() call made on a guild already synced.
C4_Witness ==
    /\ LastWas("sync")
    /\ last.before.synced
    /\ last.call.sends = 0
    /\ Len(gw) = 1

\* C5: with the statements of concurrent sync() callers interleaved, at most
\* one REQUEST_GUILD_MEMBERS packet is ever handed to the gateway.
C5_AtMostOnceConcurrent == Len(gw) <= 1

\* C6: get_permissions(user) with user.id = owner_id returns the administrator
\* permission value whatever the roles and members maps hold, without a
\* member lookup or a remote fetch.
C6_OwnerAdministrator ==
    (LastWas("get_permissions") /\ last.call.user = owner_id)
        => /\ last.call.res = ReturnValue(ADMINISTRATOR)
           /\ last.call.fetches = 0
           /\ members = last.before.members

\* C6 witness: the owner, with no member record and no everyone role.
C6_Witness ==
    /\ LastWas("get_permissions")
    /\ last.call.user = owner_id
    /\ owner_id \notin DOMAIN members
    /\ id \notin DOMAIN roles
    /\ last.call.res = ReturnValue(ADMINISTRATOR)

\* The last call was get_permissions for a non-owner with a cached member
\* record, on a guild that has its everyone role.
CachedNonOwner ==
    /\ LastHit("get_permissions")
    /\ last.call.user # owner_id
    /\ id \in DOMAIN roles

\* The role ids on the member record the last call was made for.
ListedRoles == Range(last.before.members[last.call.user].roles)

\* The bits of the everyone role and of every listed role that resolves.
GrantedBits ==
    Bits(roles[id]) \cup UNION {Bits(roles[r]) : r \in ListedRoles \cap DOMAIN roles}

\* C7: for a non-owner with a cached member record whose role ids all resolve,
\* get_permissions returns exactly the union of the everyone role's bits and
\* the bits of each listed role; a role id listed twice changes nothing.
C7_UnionOfRoles ==
    (CachedNonOwner /\ ListedRoles \subseteq DOMAIN roles)
        => /\ last.call.res.kind = "value"
           /\ Bits(last.call.res.value) = GrantedBits
           /\ last.call.res.value < 2 ^ PermBits

\* C7 witness: a member listing the same role twice, the role adding bits to
\* those of the everyone role.
C7_Witness ==
    /\ CachedNonOwner
    /\ last.before.members[last.call.user].roles = <<5, 5>>
    /\ 5 \in DOMAIN roles
    /\ roles[5] # roles[id]
    /\ last.call.res = ReturnValue(7)

\* C8: a role id on the member that is no key of the roles map is skipped:
\* get_permissions does not raise and returns the union over the roles that
\* resolve.
C8_StaleRoleSkipped ==
    (CachedNonOwner /\ ~(ListedRoles \subseteq DOMAIN roles))
        => /\ last.call.res.kind = "value"
           /\ Bits(last.call.res.value) = GrantedBits

\* C9 as stated: get_permissions never issues a remote member fetch and
\* leaves the members map as it was, for every user.
C9_NeverFetches ==
    LastWas("get_permissions")
        => /\ last.call.fetches = 0
           /\ members = last.before.members

\* C9 amended: get_permissions issues no fetch and leaves the members map as
\* it was for the owner and for a user with a cached member record; for a
\* non-owner without one it issues exactly one fetch through get_member and,
\* when the fetch succeeds, stores the fetched member under the user's id.
C9_FetchesOnlyOnMiss ==
    LastWas("get_permissions") =>
        IF last.call.user = owner_id \/ last.call.hit
        THEN /\ last.call.fetches = 0
             /\ members = last.before.members
        ELSE /\ last.call.fetches = 1
             /\ members = (IF last.call.fetched = NoMember
                           THEN last.before.members
                           ELSE dict_set(last.before.members, last.call.user,
                                         last.call.fetched))

\* C9 witness: get_permissions for a non-owner without a member record, whose
\* fetch succeeded and filled the cache.
C9_Witness ==
    /\ LastMiss("get_permissions")
    /\ last.call.user # owner_id
    /\ last.call.fetches = 1
    /\ last.call.user \in DOMAIN members
    /\ last.call.user \notin DOMAIN last.before.members
    /\ last.call.res.kind = "value"

\* C10: get_permissions for a non-owner with no member record in the map and
\* none obtainable from the remote ends in a fault; it returns no permission
\* value.
C10_NoMemberFaults ==
    (LastMiss("get_permissions") /\ last.call.user # owner_id
        /\ last.call.fetched = NoMember)
        => /\ last.call.res.kind = "raise"
           /\ last.call.res.exc = "AttributeError"

\* C10 witness: such a call on a guild that has its everyone role.
C10_Witness ==
    /\ LastMiss("get_permissions")
    /\ last.call.user # owner_id
    /\ FetchRefused(last.call)
    /\ id \in DOMAIN roles
    /\ last.call.res = Raise("AttributeError")

\* The guild_id values found on the entities of the five collections.
ChildGuildIds ==
    Range(children.channels) \cup Range(children.members)
    \cup Range(children.roles) \cup Range(children.emojis)
    \cup Range(children.voice_states)

\* C11: after construction every entity of the channels, members, roles,
\* emojis and voice_states collections has guild_id equal to the guild's id,
\* whatever guild_id it carried before.
C11_ChildrenAttached == built => ChildGuildIds \subseteq {id}

\* C11 witness: a built guild with entities in all five collections.
C11_Witness ==
    /\ built
    /\ children.channels # <<>> /\ children.emojis # <<>>
    /\ DOMAIN children.members = UserIds
    /\ DOMAIN children.roles = {1, 5}
    /\ DOMAIN children.voice_states # {}
    /\ ChildGuildIds = {id}

\* C12: add_role sends exactly one guilds_members_modify request whose roles
\* list is the member's prior list with role.id appended at the end (prior
\* order kept, a duplicate kept), and the member's own list is not changed.
C12_AddRoleAppends ==
    last.call.op = "add_role" =>
        /\ Len(requests) = 1
        /\ requests[1].name = "guilds_members_modify"
        /\ requests[1].target = last.call.user
        /\ requests[1].roles =
               Append(last.before.members[last.call.user].roles, last.args.role)
        /\ members = last.before.members

\* The operations of Guild that only dispatch to client.api.
GuildDispatchOps ==
    {"create_role", "delete_role", "update_role", "get_bans", "create_ban",
     "delete_ban"}

\* C13: a call of create_role, delete_role, update_role, get_bans, create_ban
\* or delete_ban, whether the remote call returns or raises, leaves the roles,
\* members, channels, emojis and voice_states maps and the synced flag as they
\* were.
C13_DispatchFrame ==
    [][last'.call.op \in GuildDispatchOps =>
          /\ roles' = roles
          /\ members' = members
          /\ children' = children
          /\ voice_states' = voice_states
          /\ synced' = synced]_vars

\* C13 witness: delete_role of a role of the roles map returned normally and
\* the role is still in the map.
C13_Witness ==
    /\ last.call.op = "delete_role"
    /\ last.call.res = ReturnNone
    /\ last.args.role \in DOMAIN roles
    /\ members # <<>>

\* Every dispatching operation, of GuildMember and of Guild.
DispatchOps == GuildDispatchOps \cup {"kick", "ban", "set_nickname", "add_role"}

\* C16: every dispatching operation issues exactly one request per call; when
\* the request fails the caller gets that failure as an exception (no retry,
\* no swallowing), and when it succeeds the call does not raise.
C16_OneCallFailureSurfaces ==
    last.call.op \in DispatchOps =>
        /\ Len(requests) = 1
        /\ requests[1].outcome = "ok" => last.call.res.kind # "raise"
        /\ requests[1].outcome # "ok" => last.call.res = Raise(requests[1].outcome)

\* The positions of the voice states of user u, in map order.
StatesOf(u) == {i \in DOMAIN voice_states : voice_states[i].user_id = u}

\* C17: get_voice_state(user) returns the first voice state in map order
\* whose user_id is the user's id, None when there is none; it does not raise,
\* issues no request and leaves voice_states and members unchanged.
C17_FirstVoiceState ==
    [][last'.call.op = "get_voice_state" =>
          /\ voice_states' = voice_states
          /\ members' = members
          /\ requests' = <<>>
          /\ last'.call.res.kind # "raise"
          /\ StatesOf(last'.call.user) = {} => last'.call.res = ReturnNone
          /\ \A i \in StatesOf(last'.call.user) :
                 (\A j \in StatesOf(last'.call.user) : i <= j)
                 => last'.call.res = ReturnState(voice_states[i])]_vars

\* C17 witness: the user has two voice states and the call returned the one
\* that comes first.
C17_Witness ==
    /\ last.call.op = "get_voice_state"
    /\ StatesOf(last.call.user) = {1, 2}
    /\ last.call.res = ReturnState(voice_states[1])

\* The packets of the gateway log that client.gw.send delivered.
Delivered == {i \in DOMAIN gw : gw[i].delivered}

\* C18: sync() sets synced before it sends: a sync() whose send raised leaves
\* synced true with no packet delivered, from then on no sync() hands anything
\* to the gateway, and sequential callers never get more than one packet
\* delivered.
C18_FlagBeforeSend ==
    [][/\ Cardinality(Delivered') <= 1
       /\ (last'.call.op = "sync" /\ last'.call.res.kind = "raise")
             => synced' /\ Delivered' = {}
       /\ (synced /\ Delivered = {})
             => synced' /\ gw' = gw]_vars

\* C18 witness: a sync() call on a guild whose earlier sync() failed to send:
\* synced is true, nothing was delivered and the call sent nothing.
C18_Witness ==
    /\ LastWas("sync")
    /\ last.before.synced
    /\ last.call.sends = 0
    /\ synced
    /\ Delivered = {}

\* C19: get_permissions writes to no role: a call leaves the roles map, the
\* everyone role included, as it was, and the same call made again right after
\* one that found its member (or returned a value), no other call being
\* suspended inside the guild, gives the same result.
C19_RolesReadOnly ==
    [][last'.call.op = "get_permissions" =>
          /\ roles' = roles
          /\ (/\ last.call.op = "get_permissions"
              /\ last.call.user = last'.call.user
              /\ last.call.quiet /\ last'.call.quiet
              /\ last.call.res.kind = "value" \/ last.call.hit)
                => last'.call.res = last.call.res]_vars

\* C19 witness: get_permissions returned to a cached non-owner a value with
\* more bits than the everyone role's, and the everyone role still has its own.
C19_Witness ==
    /\ LastHit("get_permissions")
    /\ last.call.user # owner_id
    /\ last.call.res.kind = "value"
    /\ last.call.res.value # roles[id]
    /\ roles[id] \in PermValues

\* C14: over any sequence of guild operations synced changes only from false
\* to true and only in a step of sync(); it never goes back to false.
C14_SyncedMonotonic ==
    [][/\ synced => synced'
       /\ synced' # synced => last'.call.op = "sync"]_vars

\* C14 witness: an operation other than sync() was called on a synced guild
\* that holds a cached member and a voice state, and the guild is still synced.
C14_Witness ==
    /\ synced
    /\ last.before.synced
    /\ last.call.op \in GuildDispatchOps \cup {"get_member", "get_permissions",
                                              "get_voice_state"}
    /\ members # <<>>
    /\ voice_states # <<>>

\* Both concurrent callers asked for user u, no key of the members map when
\* they started, each fetched a member, and both have returned.
BothFetched(u) ==
    /\ u \notin DOMAIN last.before.members
    /\ \A c \in Callers :
          /\ pc[c] = "done"
          /\ loc[c].op = "get_member"
          /\ loc[c].user = u
          /\ loc[c].fetches = 1
          /\ loc[c].fetched # NoMember

\* C15: when two get_member(id) calls for the same uncached id interleave and
\* both fetch successfully (two fetches, no de-duplication), the members map
\* then holds under id the member written by the last writer, and every other
\* key is as it was before the calls.
C15_LastWriterWins ==
    \A u \in UserIds :
        BothFetched(u) =>
            /\ writer \in Callers
            /\ members[u] = loc[writer].fetched
            /\ DOMAIN members = DOMAIN last.before.members \cup {u}
            /\ \A k \in DOMAIN last.before.members :
                   members[k] = last.before.members[k]

\* C15 witness: both callers fetched the same uncached id, the remote gave
\* them different members, and caller "a", who wrote first, got back what
\* caller "b" wrote.
C15_Witness ==
    /\ BothFetched(3)
    /\ loc["a"].fetched # loc["b"].fetched
    /\ writer = "b"
    /\ loc["a"].res = ReturnMember(loc["b"].fetched)
    /\ DOMAIN last.before.members = {9}

====
